---- MODULE Spec2Model ----
(***************************************************************************)
(* keep2bear: conversion of one Google Keep note into a textbundle         *)
(* package (src/keep2bear.py).                                             *)
(*                                                                         *)
(* Strings are sequences of one-character strings, so that formatting,     *)
(* joining, splitting and sanitizing are computed character by character.  *)
(* A python dict is a record; an optional key is a field that may be       *)
(* missing from the record's DOMAIN.  A filesystem tree is a record        *)
(* [dirs, files]: a set of relative directory paths and a function from    *)
(* relative file paths to contents; a path is a sequence of components.    *)
(***************************************************************************)
EXTENDS Integers, Sequences, FiniteSets, TLC

VARIABLES
    pc,            \* position of the driver / of process_note
    note,          \* process_note argument: the note record
    created_ts,    \* process_note argument
    ignore_colors, \* process_note argument
    meta,          \* process_note local
    title,         \* process_note local
    text,          \* process_note local (list of blocks)
    assets,        \* process_note local (list of source paths)
    embeds,        \* process_note local (list of markers)
    tb_dir,        \* write_textbundle local: name of the package directory
    copied,        \* write_textbundle: position of the asset copy loop
    err,           \* the exception process_note raised, or NoError
    ret,           \* return value of a converter called on its own
    out,           \* the output root: entry name -> tree
    before,        \* the output root as it was when process_note was called
    outcomes,      \* package directory -> how the conversion that made it ended
    nnotes,        \* notes handed to process_note so far
    nfails         \* filesystem failures injected so far

vars == <<pc, note, created_ts, ignore_colors, meta, title, text, assets,
          embeds, tb_dir, copied, err, ret, out, before, outcomes, nnotes,
          nfails>>

----------------------------------------------------------------------------
(* Bounds *)

MaxNotes == 3
MaxIOFail == 1

----------------------------------------------------------------------------
(* Program constants *)

TB_EXT == <<"t","e","x","t","b","u","n","d","l","e">>
TB_CONTENT_FILE == <<"t","e","x","t",".","t","x","t">>
TB_METADATA_FILE == <<"i","n","f","o",".","j","s","o","n">>
TB_ASSET_DIR == <<"a","s","s","e","t","s">>
TitleMax == 50
SuffixLen == 8
UsecDivisor == 1000000

None == <<>>
NL == "\n"

----------------------------------------------------------------------------
(* String primitives of the python runtime *)

Min(a, b) == IF a < b THEN a ELSE b

\* s[:n]
Take(s, n) == SubSeq(s, 1, Min(n, Len(s)))

\* sep.join(parts)
RECURSIVE Join(_, _)
Join(parts, sep) ==
    IF parts = <<>> THEN <<>>
    ELSE IF Len(parts) = 1 THEN parts[1]
    ELSE parts[1] \o sep \o Join(Tail(parts), sep)

\* s.split(c): always at least one piece
RECURSIVE Split(_, _)
Split(s, c) ==
    IF \A i \in 1..Len(s) : s[i] # c THEN <<s>>
    ELSE LET k == CHOOSE i \in 1..Len(s) :
                      s[i] = c /\ \A j \in 1..(i - 1) : s[j] # c
         IN <<SubSeq(s, 1, k - 1)>> \o Split(SubSeq(s, k + 1, Len(s)), c)

\* str.isalnum() on the characters the model uses
AlnumChars == {"a", "b", "c", "x", "y", "i", "s", "g", "0", "1", "7", "f"}
IsAlnum(c) == c \in AlnumChars
KeptChars == {".", "_", "-", " "}

\* pathlib: the components of a relative path string, and Path.name
PathParts(fname) == Split(fname, "/")
PathName(parts) == parts[Len(parts)]

----------------------------------------------------------------------------
(* Timestamps.  A datetime is [sec, usec]; its ISO string without the      *)
(* sub-second part is <<"iso", sec>>.                                      *)

fromtimestamp(us) == [sec |-> us \div UsecDivisor, usec |-> us % UsecDivisor]

datetime_to_str(ts) == <<"iso", [ts EXCEPT !.usec = 0].sec>>

int(b) == IF b THEN 1 ELSE 0

\* the archived date keyed on the wrong flag
new_tbundle_meta_wrong_flag(cts, mod_ts, pinned, archived, trashed, uuid) ==
    [ bear |-> [ pinned |-> int(pinned),
                 trashedDate |-> IF trashed THEN mod_ts ELSE None,
                 archived |-> int(archived),
                 modificationDate |-> mod_ts,
                 creationDate |-> cts,
                 pinnedDate |-> IF pinned THEN mod_ts ELSE None,
                 trashed |-> int(trashed),
                 uniqueIdentifier |-> uuid,
                 archivedDate |-> IF trashed THEN mod_ts ELSE None,
                 lastEditingDevice |-> "keep2bear" ],
      transient |-> TRUE,
      type |-> "public.plain-text",
      creatorIdentifier |-> "net.shinyfrog.bear",
      version |-> 2 ]

new_tbundle_meta(cts, mod_ts, pinned, archived, trashed, uuid) ==
    [ bear |-> [ pinned |-> int(pinned),
                 trashedDate |-> IF trashed THEN mod_ts ELSE None,
                 archived |-> int(archived),
                 modificationDate |-> mod_ts,
                 creationDate |-> cts,
                 pinnedDate |-> IF pinned THEN mod_ts ELSE None,
                 trashed |-> int(trashed),
                 uniqueIdentifier |-> uuid,
                 archivedDate |-> IF archived THEN mod_ts ELSE None,
                 lastEditingDevice |-> "keep2bear" ],
      transient |-> TRUE,
      type |-> "public.plain-text",
      creatorIdentifier |-> "net.shinyfrog.bear",
      version |-> 2 ]

convert_metadata(n, cts, uuid) ==
    LET mod_ts == datetime_to_str(fromtimestamp(n.userEditedTimestampUsec))
    IN new_tbundle_meta(cts, mod_ts, n.isPinned, n.isArchived, n.isTrashed,
                        uuid)

----------------------------------------------------------------------------
(* Content *)

\* the two markers swapped
check_status_swapped(item) == IF item.isChecked THEN "-" ELSE "+"

check_status(item) == IF item.isChecked THEN "+" ELSE "-"

convert_list(list) ==
    Join([i \in 1..Len(list) |->
             Join(<< <<check_status(list[i])>>, list[i].text >>, <<" ">>)],
         <<NL>>)

ann_convert_weblink(ann) ==
    <<"[">> \o ann.title \o <<"]", "(">> \o ann.url \o <<")", NL, ">", " ">>
        \o ann.description

converters == {"WEBLINK"}

NoError == [type |-> "None"]

\* The result of a call: the exception it raised (or NoError) and its value.
Raise(e) == [err |-> e, val |-> None]
Return(v) == [err |-> NoError, val |-> v]

UnknownAnnotation(source) ==
    [type |-> "ConversionError",
     fmt |-> "Unknown annotation type: '%s'",
     source |-> source]

MissingFile(src_file, n) ==
    [type |-> "ConversionError",
     fmt |-> "could not find file '%s' referenced by note '%s'",
     src_file |-> src_file,
     note |-> n]

\* an annotation of unknown source dropped instead of raising
convert_note_annotations_drop_unknown(n) ==
    IF "annotations" \notin DOMAIN n THEN Return(Join(<<>>, <<NL>>))
    ELSE LET anns == SelectSeq(n.annotations,
                               LAMBDA a : a.source \in converters)
         IN Return(Join(<< <<>> >> \o
                            [i \in 1..Len(anns) |->
                                ann_convert_weblink(anns[i])],
                        <<NL>>))

\* the leading empty element left out of the joined list
convert_note_annotations_no_blank(n) ==
    IF "annotations" \notin DOMAIN n THEN Return(Join(<<>>, <<NL>>))
    ELSE LET anns == n.annotations
             bad == {i \in 1..Len(anns) : anns[i].source \notin converters}
         IN IF bad # {}
            THEN LET k == CHOOSE i \in bad : \A j \in bad : i <= j
                 IN Raise(UnknownAnnotation(anns[k].source))
            ELSE Return(Join([i \in 1..Len(anns) |->
                                 ann_convert_weblink(anns[i])],
                             <<NL>>))

convert_note_annotations(n) ==
    IF "annotations" \notin DOMAIN n THEN Return(Join(<<>>, <<NL>>))
    ELSE LET anns == n.annotations
             bad == {i \in 1..Len(anns) : anns[i].source \notin converters}
         IN IF bad # {}
            THEN LET k == CHOOSE i \in bad : \A j \in bad : i <= j
                 IN Raise(UnknownAnnotation(anns[k].source))
            ELSE Return(Join(<< <<>> >> \o
                                 [i \in 1..Len(anns) |->
                                     ann_convert_weblink(anns[i])],
                             <<NL>>))

note_content(n) ==
    IF "textContent" \in DOMAIN n THEN n.textContent
    ELSE convert_list(n.listContent)

\* the heading block added also when the title comes from the content
convert_note_text_always_heading(n, ic) ==
    LET content == note_content(n)
        ttl == IF n.title # <<>> THEN n.title ELSE Split(content, NL)[1]
        head == << <<"#", " ">> \o ttl >>
        anns == convert_note_annotations(n)
        tag == IF n.color # <<"D","E","F","A","U","L","T">> /\ ~ic
               THEN << <<"#">> \o n.color >> ELSE <<>>
    IN IF anns.err # NoError THEN Raise(anns.err)
       ELSE Return([title |-> ttl,
                    text |-> head \o <<content>> \o <<anns.val>> \o tag])

convert_note_text(n, ic) ==
    LET content == note_content(n)
        ttl == IF n.title # <<>> THEN n.title ELSE Split(content, NL)[1]
        head == IF n.title # <<>> THEN << <<"#", " ">> \o n.title >> ELSE <<>>
        anns == convert_note_annotations(n)
        tag == IF n.color # <<"D","E","F","A","U","L","T">> /\ ~ic
               THEN << <<"#">> \o n.color >> ELSE <<>>
    IN IF anns.err # NoError THEN Raise(anns.err)
       ELSE Return([title |-> ttl,
                    text |-> head \o <<content>> \o <<anns.val>> \o tag])

----------------------------------------------------------------------------
(* Attachments.  The source asset directory is a tree that the conversion  *)
(* only reads; src_file is kept relative to srcpath.                       *)

SrcFiles ==
    (<< <<"i">> >> :> <<"A">>) @@ (<< <<"s">>, <<"i">> >> :> <<"B">>)

is_file(parts) == parts \in DOMAIN SrcFiles

embed(fname) == <<"[">> \o TB_ASSET_DIR \o <<"/">> \o fname \o <<"]">>

\* a missing file skipped instead of raising
convert_note_attachments_skip_missing(n) ==
    IF "attachments" \notin DOMAIN n
    THEN Return([assets |-> <<>>, embeds |-> <<>>])
    ELSE LET atts == SelectSeq(n.attachments,
                               LAMBDA a : is_file(PathParts(a.filePath)))
         IN Return([assets |-> [i \in 1..Len(atts) |->
                                   PathParts(atts[i].filePath)],
                    embeds |-> [i \in 1..Len(atts) |->
                                   embed(atts[i].filePath)]])

convert_note_attachments(n) ==
    IF "attachments" \notin DOMAIN n
    THEN Return([assets |-> <<>>, embeds |-> <<>>])
    ELSE LET atts == n.attachments
             src_file(i) == PathParts(atts[i].filePath)
             gone == {i \in 1..Len(atts) : ~is_file(src_file(i))}
         IN IF gone # {}
            THEN LET k == CHOOSE i \in gone : \A j \in gone : i <= j
                 IN Raise(MissingFile(src_file(k), n))
            ELSE Return([assets |-> [i \in 1..Len(atts) |-> src_file(i)],
                         embeds |-> [i \in 1..Len(atts) |->
                                        embed(atts[i].filePath)]])

----------------------------------------------------------------------------
(* Package writer *)

\* str(uuid4()): the random identifiers the runs may draw
UUID(c) == [i \in 1..36 |-> IF i \in {9, 14, 19, 24} THEN "-" ELSE c]
UUIDs == {UUID("0"), UUID("f")}

sanitize(t) ==
    Take(SelectSeq(t, LAMBDA c : IsAlnum(c) \/ c \in KeptChars), TitleMax)

tb_title(t) == sanitize(t) \o <<".">> \o TB_EXT

\* the suffix put before the extension
tb_name_suffix_before_ext(t, uuid, root) ==
    IF tb_title(t) \in DOMAIN root
    THEN sanitize(t) \o Take(uuid, SuffixLen) \o <<".">> \o TB_EXT
    ELSE tb_title(t)

\* the name write_textbundle settles on, given the identifier it would draw
tb_name(t, uuid, root) ==
    IF tb_title(t) \in DOMAIN root
    THEN tb_title(t) \o Take(uuid, SuffixLen)
    ELSE tb_title(t)

EmptyTree == [dirs |-> {}, files |-> <<>>]

mkdir(tree, path) == [tree EXCEPT !.dirs = @ \cup {path}]

write(tree, path, data) == [tree EXCEPT !.files = (path :> data) @@ @]

json_dumps(m) == <<"json", m>>

OSError == [type |-> "OSError"]
FileExistsError == [type |-> "FileExistsError"]

----------------------------------------------------------------------------
(* Inputs *)

DEFAULT == <<"D","E","F","A","U","L","T">>
RED == <<"R","E","D">>

RECURSIVE Rep(_, _)
Rep(c, n) == IF n = 0 THEN <<>> ELSE <<c>> \o Rep(c, n - 1)

LongTitle == Rep("c", TitleMax + 2)

Flags(n, p, a, t) ==
    [isPinned |-> p, isArchived |-> a, isTrashed |-> t] @@ n

TextNote(t, body, color, us) ==
    [title |-> t, textContent |-> body, color |-> color,
     userEditedTimestampUsec |-> us,
     isPinned |-> FALSE, isArchived |-> FALSE, isTrashed |-> FALSE]

ListNote(t, items, color, us) ==
    [title |-> t, listContent |-> items, color |-> color,
     userEditedTimestampUsec |-> us,
     isPinned |-> FALSE, isArchived |-> FALSE, isTrashed |-> FALSE]

WithAnnotations(n, anns) == ("annotations" :> anns) @@ n
WithAttachments(n, files) ==
    ("attachments" :> [i \in 1..Len(files) |-> [filePath |-> files[i]]]) @@ n

Weblink(t) ==
    [source |-> "WEBLINK", title |-> <<t>>, url |-> <<"u", t>>,
     description |-> <<"d">>]
Sheets == [source |-> "SHEETS", title |-> <<"x">>]

F_i == <<"i">>
F_si == <<"s", "/", "i">>
F_gone == <<"g">>

\* the notes handed to process_note
PipeNotes ==
    { WithAttachments(WithAnnotations(
                          Flags(TextNote(<<>>, Rep("c", TitleMax) \o <<NL, "x">>,
                                         DEFAULT, 1500000),
                                TRUE, FALSE, FALSE),
                          <<>>),
                      <<>>),
      WithAttachments(TextNote(<<"?">> \o LongTitle, <<"y">>, DEFAULT, 1500000),
                      <<F_i>>),
      WithAttachments(ListNote(<<"b">>,
                               <<[text |-> <<"a">>, isChecked |-> TRUE]>>,
                               RED, 2000001),
                      <<F_i, F_si>>),
      WithAttachments(TextNote(<<"a">>, <<"x">>, DEFAULT, 1500000),
                      <<F_gone, F_i>>),
      WithAttachments(WithAnnotations(TextNote(<<"a">>, <<"x">>, DEFAULT, 7),
                                      <<Sheets>>),
                      <<F_gone>>),
      WithAnnotations(TextNote(<<"b">>, <<"x">>, DEFAULT, 7),
                      <<Weblink("1"), Sheets>>),
      WithAttachments(WithAnnotations(TextNote(<<"b">>, <<"x">>, DEFAULT, 7),
                                      <<Weblink("1")>>),
                      <<F_i, F_gone>>) }

CreatedTs == <<"iso", 3>>

NoNote == [none |-> TRUE]
NoCall == [fn |-> "none"]

----------------------------------------------------------------------------
(* process_note, one action per step that the filesystem can observe *)

Idle == pc \in {"idle", "returned", "raised"}

Ended(how, dir) == (dir :> how) @@ outcomes

\* process_note up to the call of write_textbundle
ProcessNote(n, cts, uuid) ==
    /\ Idle
    /\ nnotes < MaxNotes
    /\ LET m == convert_metadata(n, cts, uuid)
           t == convert_note_text(n, ignore_colors)
           a == convert_note_attachments(n)
       IN /\ meta' = m
          /\ IF t.err # NoError
             THEN /\ pc' = "raised"
                  /\ err' = t.err
                  /\ title' = None /\ text' = None
                  /\ assets' = None /\ embeds' = None
             ELSE IF a.err # NoError
             THEN /\ pc' = "raised"
                  /\ err' = a.err
                  /\ title' = t.val.title /\ text' = t.val.text
                  /\ assets' = None /\ embeds' = None
             ELSE /\ pc' = "mkdir"
                  /\ err' = NoError
                  /\ title' = t.val.title
                  /\ text' = t.val.text \o a.val.embeds
                  /\ assets' = a.val.assets /\ embeds' = a.val.embeds
    /\ note' = n /\ created_ts' = cts
    /\ tb_dir' = None /\ copied' = 0
    /\ before' = out
    /\ nnotes' = nnotes + 1
    /\ UNCHANGED <<ignore_colors, ret, out, outcomes, nfails>>

UNCHANGED_locals ==
    UNCHANGED <<note, created_ts, ignore_colors, meta, title, text, assets,
                embeds, ret, before, nnotes, nfails>>

\* mkdir(exist_ok=True): an existing directory is written into
MkDir_exist_ok(uuid) ==
    /\ pc = "mkdir"
    /\ LET name == tb_name(title, uuid, out)
       IN /\ tb_dir' = name
          /\ pc' = IF assets # <<>> THEN "mkassets" ELSE "write_meta"
          /\ out' = out @@ (name :> EmptyTree)
          /\ UNCHANGED err
    /\ UNCHANGED copied
    /\ UNCHANGED outcomes
    /\ UNCHANGED <<note, created_ts, ignore_colors, meta, title, text, assets,
                   embeds, ret, before, nnotes, nfails>>

\* write_textbundle: name the directory and create it
MkDir(uuid) ==
    /\ pc = "mkdir"
    /\ LET name == tb_name(title, uuid, out)
       IN /\ tb_dir' = name
          /\ IF name \in DOMAIN out
             THEN /\ pc' = "raised"
                  /\ err' = FileExistsError
                  /\ UNCHANGED out
             ELSE /\ pc' = IF assets # <<>> THEN "mkassets" ELSE "write_meta"
                  /\ out' = (name :> EmptyTree) @@ out
                  /\ UNCHANGED err
    /\ UNCHANGED copied
    /\ UNCHANGED outcomes
    /\ UNCHANGED_locals

\* write_textbundle: create the asset directory
MkAssets ==
    /\ pc = "mkassets"
    /\ out' = [out EXCEPT ![tb_dir] = mkdir(@, <<TB_ASSET_DIR>>)]
    /\ pc' = "copy"
    /\ UNCHANGED <<tb_dir, copied, err, outcomes>>
    /\ UNCHANGED_locals

asset_dst(src_file) == <<TB_ASSET_DIR, PathName(src_file)>>

\* write_textbundle: one iteration of the copy loop
CopyAsset ==
    /\ pc = "copy"
    /\ LET src_file == assets[copied + 1]
       IN out' = [out EXCEPT ![tb_dir] =
                      write(@, asset_dst(src_file), SrcFiles[src_file])]
    /\ copied' = copied + 1
    /\ pc' = IF copied + 1 = Len(assets) THEN "write_meta" ELSE "copy"
    /\ UNCHANGED <<tb_dir, err, outcomes>>
    /\ UNCHANGED_locals

\* write_textbundle: write the metadata file
WriteMeta ==
    /\ pc = "write_meta"
    /\ out' = [out EXCEPT ![tb_dir] =
                  write(@, <<TB_METADATA_FILE>>, json_dumps(meta))]
    /\ pc' = "write_text"
    /\ UNCHANGED <<tb_dir, copied, err, outcomes>>
    /\ UNCHANGED_locals

\* the content written under the metadata file's name
WriteText_wrong_file ==
    /\ pc = "write_text"
    /\ out' = [out EXCEPT ![tb_dir] =
                  write(@, <<TB_METADATA_FILE>>, Join(text, <<NL>>))]
    /\ pc' = "returned"
    /\ outcomes' = Ended("returned", tb_dir)
    /\ UNCHANGED <<tb_dir, copied, err>>
    /\ UNCHANGED <<note, created_ts, ignore_colors, meta, title, text, assets,
                   embeds, ret, before, nnotes, nfails>>

\* write_textbundle: write the content file, and return
WriteText ==
    /\ pc = "write_text"
    /\ out' = [out EXCEPT ![tb_dir] =
                  write(@, <<TB_CONTENT_FILE>>, Join(text, <<NL>>))]
    /\ pc' = "returned"
    /\ outcomes' = Ended("returned", tb_dir)
    /\ UNCHANGED <<tb_dir, copied, err>>
    /\ UNCHANGED_locals

\* any filesystem call of write_textbundle may raise; nothing catches it
IOFail ==
    /\ pc \in {"mkdir", "mkassets", "copy", "write_meta", "write_text"}
    /\ nfails < MaxIOFail
    /\ nfails' = nfails + 1
    /\ pc' = "raised"
    /\ err' = OSError
    /\ outcomes' = IF pc = "mkdir" THEN outcomes ELSE Ended("raised", tb_dir)
    /\ UNCHANGED <<note, created_ts, ignore_colors, meta, title, text, assets,
                   embeds, tb_dir, copied, ret, out, before, nnotes>>

Init ==
    /\ pc = "idle"
    /\ note = NoNote /\ created_ts = None
    /\ ignore_colors \in BOOLEAN
    /\ meta = NoNote /\ title = None /\ text = None
    /\ assets = None /\ embeds = None
    /\ tb_dir = None /\ copied = 0
    /\ err = NoError
    /\ ret = NoCall
    /\ out = <<>> /\ before = <<>> /\ outcomes = <<>>
    /\ nnotes = 0 /\ nfails = 0

Next ==
    \/ \E n \in PipeNotes, uuid \in UUIDs :
           ProcessNote(n, CreatedTs, uuid)
    \/ \E uuid \in UUIDs : MkDir(uuid)
    \/ MkAssets
    \/ CopyAsset
    \/ WriteMeta
    \/ WriteText
    \/ IOFail

Spec == Init /\ [][Next]_vars

----------------------------------------------------------------------------
(* The converters called on their own, on a wider range of notes *)

MaxItems == 2
MaxAnns == 2

SeqsUpTo(S, n) == UNION {[1..k -> S] : k \in 0..n}

ItemTexts == {<<"a">>, <<"a", NL, "b">>}
Items == [text : ItemTexts, isChecked : BOOLEAN]
Checklists == SeqsUpTo(Items, MaxItems)

Texts == {<<>>, <<"x">>, <<"x", NL, "y">>}
Titles == {<<>>, <<"a", "?">>}

WeblinkBare ==
    [source |-> "WEBLINK", title |-> <<>>, url |-> <<>>, description |-> <<>>]
Annotations == {Weblink("1"), WeblinkBare, Sheets}
AnnotationLists == SeqsUpTo(Annotations, MaxAnns)

Stamps == {0, 999999, 1000000, 2500000}

ConvNotes ==
    LET bodies == {TextNote(t, b, c, 7) :
                       t \in Titles, b \in Texts, c \in {DEFAULT, RED}}
                  \cup {ListNote(t, l, c, 7) :
                       t \in Titles, l \in Checklists, c \in {DEFAULT, RED}}
    IN bodies
       \cup {WithAnnotations(n, a) : n \in bodies, a \in AnnotationLists}
       \cup {Flags(TextNote(<<"a">>, <<"x">>, DEFAULT, us), p, a, t) :
                us \in Stamps, p \in BOOLEAN, a \in BOOLEAN, t \in BOOLEAN}

Called(fn, arg, r) == [fn |-> fn, arg |-> arg, err |-> r.err, val |-> r.val]

CallConvertMetadata(uuid) ==
    /\ pc = "unit"
    /\ ret' = Called("convert_metadata", note,
                     Return(convert_metadata(note, created_ts, uuid)))
    /\ UNCHANGED <<pc, note, created_ts, ignore_colors, meta, title, text,
                   assets, embeds, tb_dir, copied, err, out, before, outcomes,
                   nnotes, nfails>>

CallConvertList ==
    /\ pc = "unit"
    /\ "listContent" \in DOMAIN note
    /\ ret' = Called("convert_list", note.listContent,
                     Return(convert_list(note.listContent)))
    /\ UNCHANGED <<pc, note, created_ts, ignore_colors, meta, title, text,
                   assets, embeds, tb_dir, copied, err, out, before, outcomes,
                   nnotes, nfails>>

CallConvertNoteAnnotations ==
    /\ pc = "unit"
    /\ ret' = Called("convert_note_annotations", note,
                     convert_note_annotations(note))
    /\ UNCHANGED <<pc, note, created_ts, ignore_colors, meta, title, text,
                   assets, embeds, tb_dir, copied, err, out, before, outcomes,
                   nnotes, nfails>>

CallConvertNoteText ==
    /\ pc = "unit"
    /\ ret' = Called("convert_note_text", note,
                     convert_note_text(note, ignore_colors))
    /\ UNCHANGED <<pc, note, created_ts, ignore_colors, meta, title, text,
                   assets, embeds, tb_dir, copied, err, out, before, outcomes,
                   nnotes, nfails>>

InitConv ==
    /\ pc = "unit"
    /\ note \in ConvNotes
    /\ created_ts = CreatedTs
    /\ ignore_colors \in BOOLEAN
    /\ meta = NoNote /\ title = None /\ text = None
    /\ assets = None /\ embeds = None
    /\ tb_dir = None /\ copied = 0
    /\ err = NoError
    /\ ret = NoCall
    /\ out = <<>> /\ before = <<>> /\ outcomes = <<>>
    /\ nnotes = 0 /\ nfails = 0

NextConv ==
    \/ \E uuid \in UUIDs : CallConvertMetadata(uuid)
    \/ CallConvertList
    \/ CallConvertNoteAnnotations
    \/ CallConvertNoteText

SpecConv == InitConv /\ [][NextConv]_vars

----------------------------------------------------------------------------
(* Vocabulary of the properties *)

HasAttachments(n) == "attachments" \in DOMAIN n /\ n.attachments # <<>>

MissingAt(n) ==
    IF "attachments" \in DOMAIN n
    THEN {i \in 1..Len(n.attachments) :
             PathParts(n.attachments[i].filePath) \notin DOMAIN SrcFiles}
    ELSE {}

UnknownAt(n) ==
    IF "annotations" \in DOMAIN n
    THEN {i \in 1..Len(n.annotations) : n.annotations[i].source # "WEBLINK"}
    ELSE {}

First(S) == CHOOSE i \in S : \A j \in S : i <= j

IsUnknownAnnotationError(e) ==
    /\ e.type = "ConversionError"
    /\ e.fmt = "Unknown annotation type: '%s'"

IsMissingFileError(e) ==
    /\ e.type = "ConversionError"
    /\ e.fmt = "could not find file '%s' referenced by note '%s'"

\* what an error message names
NamesSource(e, source) == "source" \in DOMAIN e /\ e.source = source
NamesNote(e, n) == "note" \in DOMAIN e /\ e.note = n
NamesFile(e, parts) == "src_file" \in DOMAIN e /\ e.src_file = parts

\* the lines of a rendered string
Lines(s) == IF s = <<>> THEN <<>> ELSE Split(s, NL)

NLCount(s) == Cardinality({i \in 1..Len(s) : s[i] = NL})

\* the longest prefix without a newline
FirstLine(s) ==
    LET k == CHOOSE i \in 0..Len(s) :
                 /\ \A j \in 1..i : s[j] # NL
                 /\ (i = Len(s) \/ s[i + 1] = NL)
    IN SubSeq(s, 1, k)

\* the path an embed marker "[path]" refers to
MarkerPath(m) == Split(SubSeq(m, 2, Len(m) - 1), "/")

HasFile(tree, path) == path \in DOMAIN tree.files

----------------------------------------------------------------------------
(* C1 *)

\* C1 as stated: a note with a missing attachment always fails with the
\* missing-attachment error, and nothing has been created under the output
\* root.
C1_AlwaysMissingFileError ==
    MissingAt(note) # {} =>
        /\ pc = "raised"
        /\ IsMissingFileError(err)
        /\ out = before

\* C1 (amended): a note with a missing attachment always fails with a
\* ConversionError and nothing has been created under the output root; the
\* error is the missing-attachment one, naming the first missing file and the
\* note, when every annotation is a WEBLINK, and the unknown-annotation one
\* otherwise, because the text is converted before the attachments.
C1_MissingAttachmentFailsBeforeWrite ==
    MissingAt(note) # {} =>
        /\ pc = "raised"
        /\ err.type = "ConversionError"
        /\ out = before
        /\ tb_dir = None
        /\ IF UnknownAt(note) = {}
           THEN /\ IsMissingFileError(err)
                /\ NamesNote(err, note)
                /\ NamesFile(err, PathParts(
                       note.attachments[First(MissingAt(note))].filePath))
           ELSE IsUnknownAnnotationError(err)

C1_Witness ==
    /\ pc = "raised"
    /\ IsMissingFileError(err)
    /\ MissingAt(note) = {2}
    /\ out # <<>>
    /\ out = before

----------------------------------------------------------------------------
(* C2 *)

\* C2 as stated: a note with an annotation whose source is not WEBLINK
\* aborts with the unknown-annotation error, which names the discriminator
\* and the note.
C2_ErrorNamesSourceAndNote ==
    UnknownAt(note) # {} =>
        /\ pc = "raised"
        /\ IsUnknownAnnotationError(err)
        /\ NamesSource(err, note.annotations[First(UnknownAt(note))].source)
        /\ NamesNote(err, note)

\* C2 (amended): a note with an annotation whose source is not WEBLINK
\* aborts with the unknown-annotation error, which names the first
\* unrecognized discriminator; it does not name the note.
C2_ErrorNamesSource ==
    UnknownAt(note) # {} =>
        /\ pc = "raised"
        /\ IsUnknownAnnotationError(err)
        /\ NamesSource(err, note.annotations[First(UnknownAt(note))].source)
        /\ ~NamesNote(err, note)
        /\ out = before

C2_Witness ==
    /\ pc = "raised"
    /\ UnknownAt(note) = {2}
    /\ NamesSource(err, "SHEETS")

----------------------------------------------------------------------------
(* C3 *)

\* C3: every entry that was under the output root when a conversion started
\* keeps its contents throughout and after the conversion; a conversion adds
\* at most one entry and exactly one when it returns; when the name it
\* settled on already exists it raises FileExistsError and writes nothing.
C3_NeverWritesIntoExisting ==
    /\ \A d \in DOMAIN before : d \in DOMAIN out /\ out[d] = before[d]
    /\ Cardinality(DOMAIN out \ DOMAIN before) <= 1
    /\ pc = "returned" =>
           /\ tb_dir \notin DOMAIN before
           /\ DOMAIN out = DOMAIN before \cup {tb_dir}
    /\ (tb_dir # None /\ tb_dir \in DOMAIN before) =>
           /\ pc = "raised"
           /\ err = FileExistsError
           /\ out = before

C3_Witness ==
    /\ pc = "raised"
    /\ err = FileExistsError
    /\ tb_dir \in DOMAIN before
    /\ tb_title(title) \in DOMAIN before
    /\ tb_dir # tb_title(title)

----------------------------------------------------------------------------
(* C4 *)

\* C4: when the output root holds exactly the package of a first note and a
\* second note with the same sanitized title is converted (no conversion or
\* disk error), the conversion returns, both packages exist, and the second
\* one's name is the first one's full name followed by 8 more characters.
C4_SecondNameIsFirstPlusSuffix ==
    ( /\ pc \in {"returned", "raised"}
      /\ err.type \notin {"ConversionError", "OSError"}
      /\ DOMAIN before = {tb_title(title)} ) =>
        /\ pc = "returned"
        /\ tb_dir # tb_title(title)
        /\ DOMAIN out = {tb_title(title), tb_dir}
        /\ Len(tb_dir) = Len(tb_title(title)) + 8
        /\ SubSeq(tb_dir, 1, Len(tb_title(title))) = tb_title(title)
        /\ SubSeq(tb_title(title), Len(tb_title(title)) - Len(TB_EXT),
                  Len(tb_title(title))) = <<".">> \o TB_EXT

C4_Witness ==
    /\ pc = "returned"
    /\ nnotes = 2
    /\ note.title = <<"?">> \o LongTitle
    /\ Len(note.title) > TitleMax
    /\ DOMAIN before = {Rep("c", TitleMax) \o <<".">> \o TB_EXT}
    /\ outcomes[Rep("c", TitleMax) \o <<".">> \o TB_EXT] = "returned"
    /\ Cardinality(DOMAIN out) = 2

----------------------------------------------------------------------------
(* C5 *)

\* C5: after process_note returns there is one embed marker per attachment,
\* in attachment order, and the path of marker i is a file of the package
\* that holds the contents of attachment i.
C5_MarkersPointAtCopies ==
    (pc = "returned" /\ "attachments" \in DOMAIN note) =>
        /\ Len(embeds) = Len(note.attachments)
        /\ \A i \in 1..Len(embeds) :
               /\ HasFile(out[tb_dir], MarkerPath(embeds[i]))
               /\ out[tb_dir].files[MarkerPath(embeds[i])] =
                      SrcFiles[PathParts(note.attachments[i].filePath)]

----------------------------------------------------------------------------
(* C6 *)

Complete(tree) ==
    /\ HasFile(tree, <<TB_CONTENT_FILE>>)
    /\ HasFile(tree, <<TB_METADATA_FILE>>)

Writing == pc \in {"mkassets", "copy", "write_meta", "write_text"}

\* C6: a package made by a conversion that returned holds text.txt and
\* info.json, and an assets directory exactly when the note has attachments;
\* the directory is created first, then the assets are copied, then info.json
\* and then text.txt are written; a package lacking one of the two files is
\* either the one being written or one whose conversion raised.
C6_ReturnedPackageIsComplete ==
    /\ pc = "returned" =>
           /\ Complete(out[tb_dir])
           /\ <<TB_ASSET_DIR>> \in out[tb_dir].dirs <=> HasAttachments(note)
           /\ HasAttachments(note) =>
                  \A i \in 1..Len(assets) :
                      HasFile(out[tb_dir], <<TB_ASSET_DIR, PathName(assets[i])>>)
    /\ pc = "mkassets" => out[tb_dir] = EmptyTree
    /\ pc = "copy" =>
           /\ out[tb_dir].dirs = {<<TB_ASSET_DIR>>}
           /\ ~HasFile(out[tb_dir], <<TB_METADATA_FILE>>)
           /\ ~HasFile(out[tb_dir], <<TB_CONTENT_FILE>>)
    /\ pc = "write_meta" =>
           /\ ~HasFile(out[tb_dir], <<TB_METADATA_FILE>>)
           /\ ~HasFile(out[tb_dir], <<TB_CONTENT_FILE>>)
           /\ <<TB_ASSET_DIR>> \in out[tb_dir].dirs <=> HasAttachments(note)
    /\ pc = "write_text" =>
           /\ HasFile(out[tb_dir], <<TB_METADATA_FILE>>)
           /\ ~HasFile(out[tb_dir], <<TB_CONTENT_FILE>>)
    /\ \A d \in DOMAIN out :
           /\ HasFile(out[d], <<TB_CONTENT_FILE>>)
                  => HasFile(out[d], <<TB_METADATA_FILE>>)
           /\ ~Complete(out[d]) =>
                  \/ Writing /\ d = tb_dir
                  \/ d \in DOMAIN outcomes /\ outcomes[d] = "raised"
           /\ (d \in DOMAIN outcomes /\ outcomes[d] = "returned")
                  => Complete(out[d])

C6_Witness ==
    /\ pc = "returned"
    /\ HasAttachments(note)
    /\ Complete(out[tb_dir])
    /\ \E d \in DOMAIN out :
           /\ d # tb_dir
           /\ outcomes[d] = "raised"
           /\ HasFile(out[d], <<TB_METADATA_FILE>>)
           /\ ~HasFile(out[d], <<TB_CONTENT_FILE>>)

----------------------------------------------------------------------------
(* C7 *)

Rendered(n) ==
    IF "textContent" \in DOMAIN n THEN n.textContent
    ELSE convert_list(n.listContent)

Heading(t) == <<"#", " ">> \o t

\* C7: with a non-empty title, convert_note_text returns the raw title and
\* the first block is "# " + title; with an empty title it returns the first
\* line of the rendered content, the first block is the content itself and
\* no block is a heading.
C7_TitleResolution ==
    (ret.fn = "convert_note_text" /\ ret.err = NoError) =>
        LET n == ret.arg
            blocks == ret.val.text
        IN IF n.title # <<>>
           THEN /\ ret.val.title = n.title
                /\ blocks[1] = Heading(n.title)
                /\ blocks[2] = Rendered(n)
           ELSE /\ ret.val.title = FirstLine(Rendered(n))
                /\ blocks[1] = Rendered(n)
                /\ \A i \in 1..Len(blocks) :
                       blocks[i] # Heading(ret.val.title)

C7_Witness ==
    /\ ret.fn = "convert_note_text"
    /\ ret.err = NoError
    /\ ret.arg.title = <<>>
    /\ "listContent" \in DOMAIN ret.arg
    /\ Len(ret.arg.listContent) = 2
    /\ ret.val.title = <<"+", " ", "a">>
    /\ ret.val.title # ret.val.text[1]

----------------------------------------------------------------------------
(* C8 *)

Marker(item) == IF item.isChecked = TRUE THEN "+" ELSE "-"

\* C8 as stated: the rendering has as many lines as the checklist has items
\* and line i begins with "+" if item i is checked and with "-" otherwise.
C8_OneLinePerItem ==
    ret.fn = "convert_list" =>
        LET lines == Lines(ret.val)
        IN /\ Len(lines) = Len(ret.arg)
           /\ \A i \in 1..Len(ret.arg) : lines[i][1] = Marker(ret.arg[i])

\* the line on which item i starts: one line per earlier item and one per
\* newline in the earlier items' texts
RECURSIVE StartLine(_, _)
StartLine(list, i) ==
    IF i = 1 THEN 1
    ELSE StartLine(list, i - 1) + 1 + NLCount(list[i - 1].text)

\* C8 (amended): the rendering holds the items in order, each as its marker
\* ("+" if checked, "-" otherwise), a space and its text, separated by
\* newlines; an item whose text contains k newlines takes k + 1 lines, so the
\* number of lines is the number of items plus the number of newlines in the
\* item texts (the number of items when no text contains a newline), and the
\* first line of each item begins with its marker.
C8_OneBlockPerItem ==
    ret.fn = "convert_list" =>
        LET list == ret.arg
            lines == Lines(ret.val)
        IN /\ Len(lines) = IF list = <<>> THEN 0
                           ELSE StartLine(list, Len(list))
                                    + NLCount(list[Len(list)].text)
           /\ \A i \in 1..Len(list) :
                  LET line == lines[StartLine(list, i)]
                  IN /\ line[1] = Marker(list[i])
                     /\ line[2] = " "
                     /\ SubSeq(line, 3, Len(line)) = FirstLine(list[i].text)
           /\ (\A i \in 1..Len(list) : NLCount(list[i].text) = 0)
                  => Len(lines) = Len(list)

C8_Witness ==
    /\ ret.fn = "convert_list"
    /\ Len(ret.arg) = 2
    /\ NLCount(ret.arg[1].text) = 1
    /\ ret.arg[1].isChecked /\ ~ret.arg[2].isChecked
    /\ Len(Lines(ret.val)) = 3

----------------------------------------------------------------------------
(* C9 *)

Block(ann) ==
    <<"[">> \o ann.title \o <<"]">> \o <<"(">> \o ann.url \o <<")">>
        \o <<NL>> \o <<">", " ">> \o ann.description

RECURSIVE Blocks(_, _)
Blocks(anns, k) ==
    IF k = 0 THEN <<>> ELSE Blocks(anns, k - 1) \o <<NL>> \o Block(anns[k])

\* C9: convert_note_annotations returns the empty string when the note has
\* no annotations (key absent, or empty list); with one or more WEBLINK
\* annotations it returns one blank line followed by the blocks
\* "[title](url)\n> description" of the annotations, in order, each on a new
\* line.
C9_AnnotationsRendering ==
    ret.fn = "convert_note_annotations" =>
        LET n == ret.arg
        IN /\ ("annotations" \notin DOMAIN n \/ n.annotations = <<>>) =>
                  /\ ret.err = NoError
                  /\ ret.val = <<>>
           /\ ( /\ "annotations" \in DOMAIN n
                /\ n.annotations # <<>>
                /\ UnknownAt(n) = {} ) =>
                  /\ ret.err = NoError
                  /\ ret.val = Blocks(n.annotations, Len(n.annotations))
                  /\ Lines(ret.val)[1] = <<>>
                  /\ Lines(ret.val)[2] # <<>>

C9_Witness ==
    /\ ret.fn = "convert_note_annotations"
    /\ ret.err = NoError
    /\ "annotations" \in DOMAIN ret.arg
    /\ Len(ret.arg.annotations) = 2
    /\ ret.arg.annotations[1] # ret.arg.annotations[2]
    /\ ret.val[1] = NL /\ ret.val[2] = "["

----------------------------------------------------------------------------
(* C10 *)

DateFor(flag, m) == IF flag THEN m.bear.modificationDate ELSE None

\* C10: in the metadata record, pinnedDate, archivedDate and trashedDate are
\* each the modification timestamp when the corresponding flag of the note is
\* true and null otherwise, whatever the other two flags are.
C10_DatesMirrorFlags ==
    ret.fn = "convert_metadata" =>
        LET n == ret.arg
            m == ret.val
        IN /\ m.bear.modificationDate # None
           /\ m.bear.modificationDate =
                  <<"iso", n.userEditedTimestampUsec \div 1000000>>
           /\ m.bear.pinnedDate = DateFor(n.isPinned, m)
           /\ m.bear.archivedDate = DateFor(n.isArchived, m)
           /\ m.bear.trashedDate = DateFor(n.isTrashed, m)

C10_Witness ==
    /\ ret.fn = "convert_metadata"
    /\ ret.arg.isPinned /\ ~ret.arg.isArchived /\ ~ret.arg.isTrashed
    /\ ret.arg.userEditedTimestampUsec = 2500000
    /\ ret.val.bear.pinnedDate = <<"iso", 2>>
    /\ ret.val.bear.archivedDate = None
    /\ ret.val.bear.trashedDate = None

====
